---------------------------- MODULE Spec2Model ----------------------------
(***************************************************************************)
(* Perp Scan v1.2 (src/FEperp_scan_v_1.jsx): hash router, share link,      *)
(* remote data client (fetchJson), Landing view and Dashboard view.        *)
(*                                                                         *)
(* Text is modelled as sequences of one-character strings, so that         *)
(* parsing, splitting, percent-encoding and percent-decoding are computed  *)
(* character by character as the browser computes them.                    *)
(***************************************************************************)
EXTENDS Integers, Sequences, FiniteSets, TLC

VARIABLES
    \* ---- application state ----
    hash,       \* useHashRoute: the hash state (window.location.hash || "#/")
    storage,    \* localStorage item "ps_base" (Null when absent)
    view,       \* which component App has mounted: "home" (Landing) or "acct" (Dashboard)
    landing,    \* state of the mounted Landing (NoLanding when unmounted)
    dash,       \* props and state of the mounted Dashboard (NoDash when unmounted)
    calls,      \* the run()/fetchJson calls in flight, by slot (FreeSlot when none)
    timers,     \* the slots of the calls whose abort timer is armed
    received,   \* the body this step hands to the mounted Dashboard's run (NoBody when none)
    \* ---- harness for the pure functions parseRoute and shareUrl ----
    p_pc, p_hash, p_addr, p_base, p_url, p_route

appVars  == <<hash, storage, view, landing, dash, calls, timers, received>>
pureVars == <<p_pc, p_hash, p_addr, p_base, p_url, p_route>>
vars     == <<hash, storage, view, landing, dash, calls, timers, received,
              p_pc, p_hash, p_addr, p_base, p_url, p_route>>

\* Bounds of the model.
MaxInFlight == 2    \* run() calls in flight at a time (pending ones of unmounted views included)
MaxTok      == 5    \* tokens concatenated into a fragment given to parseRoute
MaxAddrLen  == 2    \* characters of an address given to shareUrl

(***************************************************************************)
(* Text                                                                    *)
(***************************************************************************)
\* JS null / undefined, as a value comparable with texts.
Null == <<"<null>">>

\* Code point 96 (the grave accent), which a TLA+ string cannot hold.
Backtick == "<grave>"

\* Printable ASCII, code points 32..126.
Ascii ==
    <<" ", "!", "\"", "#", "$", "%", "&", "'", "(", ")", "*", "+", ",", "-", ".", "/",
      "0", "1", "2", "3", "4", "5", "6", "7", "8", "9", ":", ";", "<", "=", ">", "?",
      "@", "A", "B", "C", "D", "E", "F", "G", "H", "I", "J", "K", "L", "M", "N", "O",
      "P", "Q", "R", "S", "T", "U", "V", "W", "X", "Y", "Z", "[", "\\", "]", "^", "_",
      Backtick, "a", "b", "c", "d", "e", "f", "g", "h", "i", "j", "k", "l", "m", "n", "o",
      "p", "q", "r", "s", "t", "u", "v", "w", "x", "y", "z", "{", "|", "}", "~">>

\* A byte that is no printable ASCII character: U+FFFD for a lone byte >= 0x80,
\* a control character below 0x20 (the inputs of the model produce neither).
OtherChar == "<other>"

Ord(c) == 31 + (CHOOSE i \in 1..Len(Ascii) : Ascii[i] = c)
Chr(n) == IF n \in 32..126 THEN Ascii[n - 31] ELSE OtherChar

HexDigits == <<"0", "1", "2", "3", "4", "5", "6", "7", "8", "9", "A", "B", "C", "D", "E", "F">>
LowerHex  == <<"a", "b", "c", "d", "e", "f">>
IsHex(c)  == (\E i \in 1..16 : HexDigits[i] = c) \/ (\E i \in 1..6 : LowerHex[i] = c)
HexVal(c) == IF \E i \in 1..16 : HexDigits[i] = c
             THEN (CHOOSE i \in 1..16 : HexDigits[i] = c) - 1
             ELSE 9 + (CHOOSE i \in 1..6 : LowerHex[i] = c)

IndexOf(s, c) == IF \E i \in 1..Len(s) : s[i] = c
                 THEN CHOOSE i \in 1..Len(s) : s[i] = c /\ \A j \in 1..(i - 1) : s[j] # c
                 ELSE 0

\* String.prototype.split with a one-character separator.
RECURSIVE Split(_, _)
Split(s, c) ==
    LET i == IndexOf(s, c)
    IN  IF i = 0 THEN <<s>>
        ELSE <<SubSeq(s, 1, i - 1)>> \o Split(SubSeq(s, i + 1, Len(s)), c)

\* Array.prototype.filter(Boolean) on an array of strings: drops the empty ones.
RECURSIVE FilterBoolean(_)
FilterBoolean(a) ==
    IF a = <<>> THEN <<>>
    ELSE IF a[1] = <<>> THEN FilterBoolean(Tail(a))
    ELSE <<a[1]>> \o FilterBoolean(Tail(a))

RECURSIVE Concat(_)
Concat(a) == IF a = <<>> THEN <<>> ELSE a[1] \o Concat(Tail(a))

\* Percent-decoding of a query-string component (application/x-www-form-urlencoded).
RECURSIVE PercentDecode(_)
PercentDecode(s) ==
    IF s = <<>> THEN <<>>
    ELSE IF s[1] = "%" /\ Len(s) >= 3 /\ IsHex(s[2]) /\ IsHex(s[3])
         THEN <<Chr(16 * HexVal(s[2]) + HexVal(s[3]))>> \o PercentDecode(SubSeq(s, 4, Len(s)))
         ELSE <<s[1]>> \o PercentDecode(Tail(s))

PlusToSpace(s) == [i \in 1..Len(s) |-> IF s[i] = "+" THEN " " ELSE s[i]]
FormDecode(s)  == PercentDecode(PlusToSpace(s))

\* encodeURIComponent: everything but A-Z a-z 0-9 - _ . ! ~ * ' ( ) becomes %XX.
Unreserved(c) ==
    \/ Ord(c) \in 48..57 \/ Ord(c) \in 65..90 \/ Ord(c) \in 97..122
    \/ c \in {"-", "_", ".", "!", "~", "*", "'", "(", ")"}
PercentEncodeChar(c) == <<"%", HexDigits[(Ord(c) \div 16) + 1], HexDigits[(Ord(c) % 16) + 1]>>
encodeURIComponent(s) ==
    Concat([i \in 1..Len(s) |-> IF Unreserved(s[i]) THEN <<s[i]>> ELSE PercentEncodeChar(s[i])])

\* The URL parser's fragment state, run by the setters of URL.hash and
\* location.hash: the fragment percent-encode set is space, double quote, <, > and grave accent.
InFragmentEncodeSet(c) == c \in {" ", "\"", "<", ">", Backtick}
FragmentEncode(s) ==
    Concat([i \in 1..Len(s) |-> IF InFragmentEncodeSet(s[i]) THEN PercentEncodeChar(s[i]) ELSE <<s[i]>>])
\* Setting the hash to v stores the fragment; reading it back gives "#" + fragment,
\* or "" when the fragment is empty.
HashSetter(v) ==
    LET input == IF v # <<>> /\ v[1] = "#" THEN Tail(v) ELSE v
        frag  == FragmentEncode(input)
    IN  IF frag = <<>> THEN <<>> ELSE <<"#">> \o frag

(***************************************************************************)
(* Program constants                                                       *)
(***************************************************************************)
DEFAULT_BASE ==
    <<"h","t","t","p","s",":","/","/","p","e","r","p","-","s","c","a","n","-","l","i","v","e",
      ".","l","i","a","m","-","a","l","e","r","t","s",".","w","o","r","k","e","r","s",".","d","e","v">>

P_day         == <<"d","a","y">>
P_week        == <<"w","e","e","k">>
P_month       == <<"m","o","n","t","h">>
P_allTime     == <<"a","l","l","T","i","m","e">>
P_perpDay     == <<"p","e","r","p","D","a","y">>
P_perpWeek    == <<"p","e","r","p","W","e","e","k">>
P_perpMonth   == <<"p","e","r","p","M","o","n","t","h">>
P_perpAllTime == <<"p","e","r","p","A","l","l","T","i","m","e">>
BUILT_IN_PERIODS ==
    {P_day, P_week, P_month, P_allTime, P_perpDay, P_perpWeek, P_perpMonth, P_perpAllTime}

K_acct   == <<"a","c","c","t">>
K_base   == <<"b","a","s","e">>
K_period == <<"p","e","r","i","o","d">>

(***************************************************************************)
(* Hash router                                                             *)
(***************************************************************************)
\* new URLSearchParams(queryStr): the list of decoded (name, value) pairs.
RECURSIVE ParsePairs(_)
ParsePairs(pieces) ==
    IF pieces = <<>> THEN <<>>
    ELSE LET p == pieces[1]
             i == IndexOf(p, "=")
             n == IF i = 0 THEN p ELSE SubSeq(p, 1, i - 1)
             v == IF i = 0 THEN <<>> ELSE SubSeq(p, i + 1, Len(p))
         IN  (IF p = <<>> THEN <<>> ELSE <<[name |-> FormDecode(n), value |-> FormDecode(v)]>>)
             \o ParsePairs(Tail(pieces))
URLSearchParams(init) ==
    LET s == IF init # <<>> /\ init[1] = "?" THEN Tail(init) ELSE init
    IN  ParsePairs(Split(s, "&"))
\* URLSearchParams.get: the first value of that name, or null.
QsGet(qs, k) ==
    IF \E i \in 1..Len(qs) : qs[i].name = k
    THEN qs[CHOOSE i \in 1..Len(qs) : qs[i].name = k /\ \A j \in 1..(i - 1) : qs[j].name # k].value
    ELSE Null

\* Faulty variant of parseRoute: the path segments are not filtered, so the route is
\* an account route only for the exact path /acct/<addr>.
parseRoute_NoFilter(h) ==
    LET clean    == IF h # <<>> /\ h[1] = "#" THEN Tail(h) ELSE h
        sp       == Split(clean, "?")
        queryStr == IF Len(sp) >= 2 THEN sp[2] ELSE <<>>
        qs       == URLSearchParams(queryStr)
        parts    == Split(sp[1], "/")
    IN  IF Len(parts) >= 3 /\ parts[1] = <<>> /\ parts[2] = K_acct /\ parts[3] # <<>>
        THEN [name |-> "acct", addr |-> parts[3], qs |-> qs]
        ELSE [name |-> "home", addr |-> Null, qs |-> qs]

parseRoute(h) ==
    LET clean    == IF h # <<>> /\ h[1] = "#" THEN Tail(h) ELSE h
        sp       == Split(clean, "?")
        path     == sp[1]
        queryStr == IF Len(sp) >= 2 THEN sp[2] ELSE <<>>
        qs       == URLSearchParams(queryStr)
        parts    == FilterBoolean(Split(path, "/"))
    IN  IF Len(parts) >= 2 /\ parts[1] = K_acct
        THEN [name |-> "acct", addr |-> parts[2], qs |-> qs]
        ELSE [name |-> "home", addr |-> Null, qs |-> qs]

\* The page's own URL, without fragment.
PageUrl == <<"h","t","t","p","s",":","/","/","a","p","p","/">>

shareUrl(addr, baseUrl) ==
    LET frag == HashSetter(<<"#","/">> \o K_acct \o <<"/">> \o addr
                           \o <<"?">> \o K_base \o <<"=">> \o encodeURIComponent(baseUrl))
    IN  PageUrl \o frag

\* The fragment of a URL, as location.hash gives it after following the URL.
UrlFragment(u) ==
    LET i == IndexOf(u, "#")
    IN  IF i = 0 \/ i = Len(u) THEN <<>> ELSE SubSeq(u, i, Len(u))

(***************************************************************************)
(* Remote data client: fetchJson                                           *)
(***************************************************************************)
Undefined == "<undefined>"

\* res.ok: the status is in the success range.
ResOk(status) == status \in 200..299

\* The messages of the errors a call can end with.
HttpMessage(status) == "HTTP " \o ToString(status)
AbortMessage   == "The operation was aborted."
NetworkMessage == "Failed to fetch"
ParseMessage   == "Unexpected token < in JSON"
NullMessage    == "Cannot read properties of null (reading 'ok')"

\* const to = setTimeout(() => ctrl.abort(), timeoutMs): the armed timers with
\* the timer of call i among them.
SetTimeout(armed, i) == armed \cup {i}

\* Faulty variant of ClearTimeout: the timer is left armed.
ClearTimeout_Skipped(armed, i) == armed

\* finally { clearTimeout(to) }: the armed timers without the timer of call i.
ClearTimeout(armed, i) == armed \ {i}

(***************************************************************************)
(* Views                                                                   *)
(***************************************************************************)
NoLanding == [mounted |-> FALSE]
NoDash    == [mounted |-> FALSE]
NoData    == [kind |-> "null"]
NoBody    == [kind |-> "none"]
FreeSlot  == [pc |-> "free"]

\* JS truthiness of a string-or-null value, and the || operator.
Truthy(x)    == x # Null /\ x # <<>>
OrElse(a, b) == IF Truthy(a) THEN a ELSE b

\* Faulty variant of PersistEffect: the effect writes nothing.
PersistEffect_Skipped(stored, baseUrl) == stored

\* useEffect(() => localStorage.setItem("ps_base", baseUrl), [baseUrl]): the item
\* after the effect has run, on mount and on every change of baseUrl.
PersistEffect(stored, baseUrl) == baseUrl

\* Landing's initial state.
MountLanding(stored) ==
    [mounted |-> TRUE, baseUrl |-> OrElse(stored, DEFAULT_BASE), addr |-> <<>>]

\* Dashboard's props and initial state.
MountDashboard(addr, qs, stored) ==
    [mounted          |-> TRUE,
     addr             |-> addr,
     baseUrl          |-> OrElse(QsGet(qs, K_base), OrElse(stored, DEFAULT_BASE)),
     period           |-> OrElse(QsGet(qs, K_period), P_week),
     includePositions |-> TRUE,
     includeClosed    |-> TRUE,
     loading          |-> FALSE,
     error            |-> "",
     data             |-> NoData]

\* baseUrl.replace(/\/$/, "")
StripTrailingSlash(s) ==
    IF s # <<>> /\ s[Len(s)] = "/" THEN SubSeq(s, 1, Len(s) - 1) ELSE s

\* The request run() builds from the values of the current render.
RunRequest(d) ==
    [base |-> StripTrailingSlash(d.baseUrl), path |-> "/pnlClean", account |-> d.addr,
     period |-> d.period, positions |-> d.includePositions, closed |-> d.includeClosed]

\* The link downloadCsv opens.
CsvRequest(d, section) ==
    [base |-> StripTrailingSlash(d.baseUrl), path |-> "/pnlClean", account |-> d.addr,
     period |-> d.period, csv |-> TRUE, section |-> section]

\* Faulty variant of StartRun: the previous result is kept while the new request runs.
StartRun_KeepsData(d) == [d EXCEPT !.loading = TRUE, !.error = ""]

\* setLoading(true); setError(""); setData(null)
StartRun(d) == [d EXCEPT !.loading = TRUE, !.error = "", !.data = NoData]

\* Faulty variant of AppErrorMessage: the error field is ignored.
AppErrorMessage_Generic(json) == "ok=false"

\* json.error || "ok=false"
AppErrorMessage(json) ==
    IF json.error # Undefined /\ json.error # "" THEN json.error ELSE "ok=false"

\* e?.message || String(e)
ErrorText(message) == IF message # "" THEN message ELSE "Error"

\* Faulty variant of RunFinally: the loading flag is cleared only when the run succeeded.
RunFinally_OnSuccessOnly(d) == IF d.error = "" THEN [d EXCEPT !.loading = FALSE] ELSE d

\* finally { setLoading(false) }
RunFinally(d) == [d EXCEPT !.loading = FALSE]

\* catch (e) { setError(...) } finally { ... }
RunFailed(d, message) == RunFinally([d EXCEPT !.error = ErrorText(message)])

\* run() after fetchJson returned json.
RunGotJson(d, json) ==
    IF json.kind = "null" THEN RunFailed(d, NullMessage)
    ELSE IF ~json.ok THEN RunFailed(d, AppErrorMessage(json))
    ELSE RunFinally([d EXCEPT !.data = json])

\* Rendering guards of the Dashboard.
FetchDisabled          == dash.loading
ErrorBannerShown       == dash.error # ""
DataShown              == dash.data # NoData
PositionsTableRendered == DataShown /\ dash.includePositions
ClosedTableRendered    == DataShown /\ dash.includeClosed
PromptShown            == ~DataShown /\ ~dash.loading /\ ~ErrorBannerShown
ClosedCsvShown         == dash.includeClosed
PositionsCsvShown      == dash.includeClosed /\ dash.includePositions

(***************************************************************************)
(* Inputs                                                                  *)
(***************************************************************************)
AddrA == <<"0", "x", "A", "B", "C", "D">>
AddrB == <<"0", "x", "B", "E", "E", "F">>
ExampleBase ==
    <<"h","t","t","p","s",":","/","/","e","x","a","m","p","l","e",".","t","e","s","t">>
ExampleBaseEncoded ==
    <<"h","t","t","p","s","%","3","A","%","2","F","%","2","F","e","x","a","m","p","l","e",".","t","e","s","t">>
Bogus == <<"b", "o", "g", "u", "s">>

F_home == <<"#", "/">>
F_acct(a) == <<"#", "/">> \o K_acct \o <<"/">> \o a
\* Fragments the user can bring the page to (address bar, link, history).
F_A == F_acct(AddrA) \o <<"?">> \o K_base \o <<"=">> \o ExampleBaseEncoded
F_B == F_acct(AddrB) \o <<"?">> \o K_period \o <<"=">> \o Bogus
NavFragments     == {F_home, F_A, F_B}
InitFragments    == {<<>>, F_B}
InitStored       == {Null, <<>>, ExampleBase}
TypedAddrs       == {<<>>, AddrA}
TypedBases       == {ExampleBase}
SelectedPeriods  == {P_week}
Statuses         == {200, 500}
\* The bodies the remote API can answer a request for account a with.
JsonBodies(a)    ==
    { [kind |-> "object", ok |-> TRUE,  error |-> Undefined, forAccount |-> a],
      [kind |-> "object", ok |-> FALSE, error |-> "bad account", forAccount |-> a],
      [kind |-> "object", ok |-> FALSE, error |-> Undefined, forAccount |-> a],
      [kind |-> "object", ok |-> FALSE, error |-> "", forAccount |-> a],
      [kind |-> "null"] }

(***************************************************************************)
(* App: routing and mounting                                               *)
(***************************************************************************)
\* window.location.hash || "#/"
EffectiveHash(h) == IF h = <<>> THEN F_home ELSE h

\* The Dashboard is unmounted: the calls of its runs go on without it.
Orphan(c)    == IF c = FreeSlot THEN c ELSE [c EXCEPT !.live = FALSE]
Orphaned(cs) == [i \in DOMAIN cs |-> Orphan(cs[i])]

\* App renders with hash state h: the view of the route is mounted, or kept
\* when it is the component already mounted.
Render(h) ==
    LET route == parseRoute(h)
    IN  /\ hash' = h
        /\ IF route.name = "home"
           THEN IF view = "home"
                THEN UNCHANGED <<view, landing, dash, storage, calls>>
                ELSE /\ view' = "home"
                     /\ dash' = NoDash
                     /\ landing' = MountLanding(storage)
                     /\ storage' = PersistEffect(storage, MountLanding(storage).baseUrl)
                     /\ calls' = Orphaned(calls)
           ELSE IF view = "acct"
                THEN /\ dash' = [dash EXCEPT !.addr = route.addr]
                     /\ UNCHANGED <<view, landing, storage, calls>>
                ELSE /\ view' = "acct"
                     /\ landing' = NoLanding
                     /\ dash' = MountDashboard(route.addr, route.qs, storage)
                     /\ storage' = PersistEffect(storage,
                                        MountDashboard(route.addr, route.qs, storage).baseUrl)
                     /\ UNCHANGED calls

CallIds == 1..MaxInFlight

\* The page is loaded at fragment f with the stored preference stored: the
\* state after the first render and its effects.
AppLoaded(f, stored) ==
        LET h     == EffectiveHash(f)
            route == parseRoute(h)
        IN  /\ hash = h
            /\ calls = [i \in CallIds |-> FreeSlot]
            /\ timers = {}
            /\ received = NoBody
            /\ IF route.name = "home"
               THEN /\ view = "home"
                    /\ dash = NoDash
                    /\ landing = MountLanding(stored)
                    /\ storage = PersistEffect(stored, MountLanding(stored).baseUrl)
               ELSE /\ view = "acct"
                    /\ landing = NoLanding
                    /\ dash = MountDashboard(route.addr, route.qs, stored)
                    /\ storage = PersistEffect(stored,
                                     MountDashboard(route.addr, route.qs, stored).baseUrl)

\* The page has just been loaded; parseRoute and shareUrl are not being exercised
\* on their own.
AppInit ==
    /\ \E f \in InitFragments, stored \in InitStored : AppLoaded(f, stored)
    /\ p_pc = "off" /\ p_hash = <<>> /\ p_addr = <<>> /\ p_base = <<>>
    /\ p_url = <<>> /\ p_route = [name |-> "none"]

\* hashchange: the fragment has become f.
Navigate(f) ==
    /\ EffectiveHash(f) # hash
    /\ Render(EffectiveHash(f))
    /\ received' = NoBody
    /\ UNCHANGED timers
    /\ UNCHANGED pureVars

(***************************************************************************)
(* Landing                                                                 *)
(***************************************************************************)
LandingSetAddr(a) ==
    /\ view = "home"
    /\ landing' = [landing EXCEPT !.addr = a]
    /\ received' = NoBody
    /\ UNCHANGED <<hash, storage, view, dash, calls, timers>>
    /\ UNCHANGED pureVars

\* onChange of the base URL field, and the Reset button (b = DEFAULT_BASE).
LandingSetBaseUrl(b) ==
    /\ view = "home"
    /\ landing' = [landing EXCEPT !.baseUrl = b]
    /\ storage' = IF b # landing.baseUrl THEN PersistEffect(storage, b) ELSE storage
    /\ received' = NoBody
    /\ UNCHANGED <<hash, view, dash, calls, timers>>
    /\ UNCHANGED pureVars

\* go(): nothing with an empty address; else the fragment is set and App renders.
LandingGo ==
    /\ view = "home"
    /\ IF landing.addr = <<>>
       THEN UNCHANGED <<hash, storage, view, landing, dash, calls>>
       ELSE Render(EffectiveHash(HashSetter(
                <<"#", "/">> \o K_acct \o <<"/">> \o landing.addr \o <<"?">> \o K_base
                \o <<"=">> \o encodeURIComponent(landing.baseUrl))))
    /\ received' = NoBody
    /\ UNCHANGED timers
    /\ UNCHANGED pureVars

(***************************************************************************)
(* Dashboard                                                               *)
(***************************************************************************)
\* onChange of the base URL field, and the Reset button (b = DEFAULT_BASE).
DashSetBaseUrl(b) ==
    /\ view = "acct"
    /\ dash' = [dash EXCEPT !.baseUrl = b]
    /\ storage' = IF b # dash.baseUrl THEN PersistEffect(storage, b) ELSE storage
    /\ received' = NoBody
    /\ UNCHANGED <<hash, view, landing, calls, timers>>
    /\ UNCHANGED pureVars

DashSetPeriod(p) ==
    /\ view = "acct"
    /\ dash' = [dash EXCEPT !.period = p]
    /\ received' = NoBody
    /\ UNCHANGED <<hash, storage, view, landing, calls, timers>>
    /\ UNCHANGED pureVars

TogglePositions ==
    /\ view = "acct"
    /\ dash' = [dash EXCEPT !.includePositions = ~dash.includePositions]
    /\ received' = NoBody
    /\ UNCHANGED <<hash, storage, view, landing, calls, timers>>
    /\ UNCHANGED pureVars

ToggleClosed ==
    /\ view = "acct"
    /\ dash' = [dash EXCEPT !.includeClosed = ~dash.includeClosed]
    /\ received' = NoBody
    /\ UNCHANGED <<hash, storage, view, landing, calls, timers>>
    /\ UNCHANGED pureVars

Pending(i) == calls[i].pc \in {"fetch", "body"}
FirstFree  == CHOOSE i \in CallIds : ~Pending(i) /\ \A j \in 1..(i - 1) : Pending(j)

\* The Fetch button (disabled while loading): run() up to its await, with
\* fetchJson up to its await of fetch().
Run ==
    /\ view = "acct"
    /\ ~FetchDisabled
    /\ \E i \in CallIds : ~Pending(i)
    /\ dash' = StartRun(dash)
    /\ calls' = [calls EXCEPT ![FirstFree] = [account |-> RunRequest(dash).account,
                                              pc |-> "fetch", live |-> TRUE]]
    /\ timers' = SetTimeout(timers, FirstFree)
    /\ received' = NoBody
    /\ UNCHANGED <<hash, storage, view, landing>>
    /\ UNCHANGED pureVars

\* The CSV buttons: the link is opened in a new browsing context, the page
\* keeps its state.
DownloadCsv(section) ==
    /\ view = "acct"
    /\ IF section = "closed" THEN ClosedCsvShown ELSE PositionsCsvShown
    /\ CsvRequest(dash, section).section = section
    /\ received' = NoBody
    /\ UNCHANGED <<hash, storage, view, landing, dash, calls, timers>>
    /\ UNCHANGED pureVars

\* ---- the ways the call in slot i goes on ----
\* fetchJson ends (finally clears the timer) and run() goes on to its end,
\* setting the Dashboard's state to newd; the setters of a run whose Dashboard
\* has been unmounted do nothing.
Settle(i, armed, newd) ==
    /\ calls' = [calls EXCEPT ![i] = FreeSlot]
    /\ timers' = ClearTimeout(armed, i)
    /\ dash' = IF calls[i].live THEN newd ELSE dash
    /\ UNCHANGED <<hash, storage, view, landing>>
    /\ UNCHANGED pureVars

\* fetch() resolves with a response of that status.
ResponseArrives(i, status) ==
    /\ calls[i].pc = "fetch"
    /\ received' = NoBody
    /\ IF ResOk(status)
       THEN /\ calls' = [calls EXCEPT ![i].pc = "body"]
            /\ UNCHANGED <<hash, storage, view, landing, dash, timers>>
            /\ UNCHANGED pureVars
       ELSE Settle(i, timers, RunFailed(dash, HttpMessage(status)))

\* fetch() rejects: no connectivity.
NetworkFails(i) ==
    /\ calls[i].pc = "fetch"
    /\ received' = NoBody
    /\ Settle(i, timers, RunFailed(dash, NetworkMessage))

\* res.json() resolves with the parsed body.
BodyParsed(i) ==
    /\ calls[i].pc = "body"
    /\ \E json \in JsonBodies(calls[i].account) :
           /\ received' = IF calls[i].live THEN json ELSE NoBody
           /\ Settle(i, timers, RunGotJson(dash, json))

\* res.json() rejects: the body is not valid JSON.
BodyInvalid(i) ==
    /\ calls[i].pc = "body"
    /\ received' = NoBody
    /\ Settle(i, timers, RunFailed(dash, ParseMessage))

\* The timer of call i fires: ctrl.abort() rejects the pending fetch() or
\* res.json() with an abort error (and does nothing to a call that is over).
TimerFires(i) ==
    /\ i \in timers
    /\ received' = NoBody
    /\ IF Pending(i)
       THEN Settle(i, timers \ {i}, RunFailed(dash, AbortMessage))
       ELSE /\ timers' = timers \ {i}
            /\ UNCHANGED <<hash, storage, view, landing, dash, calls>>
            /\ UNCHANGED pureVars

Next ==
    \/ \E f \in NavFragments : Navigate(f)
    \/ \E a \in TypedAddrs : LandingSetAddr(a)
    \/ \E b \in TypedBases \cup {DEFAULT_BASE} : LandingSetBaseUrl(b)
    \/ LandingGo
    \/ \E b \in TypedBases \cup {DEFAULT_BASE} : DashSetBaseUrl(b)
    \/ \E p \in SelectedPeriods : DashSetPeriod(p)
    \/ TogglePositions
    \/ ToggleClosed
    \/ Run
    \/ \E s \in {"closed", "positions"} : DownloadCsv(s)
    \/ \E i \in CallIds, st \in Statuses : ResponseArrives(i, st)
    \/ \E i \in CallIds : NetworkFails(i)
    \/ \E i \in CallIds : BodyParsed(i)
    \/ \E i \in CallIds : BodyInvalid(i)
    \/ \E i \in CallIds : TimerFires(i)

Spec == AppInit /\ [][Next]_vars

\* The timer of a pending call fires after timeoutMs unless it is cleared first.
LiveSpec == Spec /\ \A i \in CallIds : WF_vars(TimerFires(i))

(***************************************************************************)
(* Claims about the application                                            *)
(***************************************************************************)
LivePending == \E i \in CallIds : Pending(i) /\ calls[i].live

\* C2: every run that starts ends, whichever way its request ends (response,
\* non-success status, ok=false, invalid body, connectivity failure, timer
\* expiry); the loading flag is true only while a run of the mounted Dashboard
\* is pending, so once the run has ended the flag is false and the Fetch button
\* enabled again.
C2_RunAlwaysEnds ==
    /\ \A i \in CallIds : Pending(i) ~> ~Pending(i)
    /\ [](view = "acct" => (dash.loading <=> LivePending))
    /\ [](view = "acct" /\ ~LivePending => ~FetchDisabled)

\* C2 witness: a run of the mounted Dashboard has ended by timer expiry, with
\* the loading flag cleared and the timeout error shown.
C2_Witness ==
    /\ view = "acct" /\ ~LivePending
    /\ ~dash.loading /\ dash.error = AbortMessage

\* C1: a response to a fetch started for address A that arrives after the
\* fragment has changed (the view of that fetch is unmounted, or the Dashboard
\* now shows another address) changes nothing of the view shown, and the
\* Dashboard never shows a result fetched for another address than its own.
Stale(i) == ~calls[i].live \/ calls[i].account # dash.addr
C1_StaleResponseIgnored ==
    [][ /\ \A i \in CallIds :
              (Pending(i) /\ Stale(i) /\ calls'[i].pc # calls[i].pc) => dash' = dash
        /\ (view' = "acct" /\ dash'.data # NoData) => dash'.data.forAccount = dash'.addr
      ]_vars

\* C3: when run receives a success-status JSON body whose ok is false, the
\* run ends failed: the error text is the body's error field (the generic
\* message when the field is missing or empty), the result stays empty and no
\* table is rendered, whatever the toggles are.
C3_AppFailure ==
    (received.kind = "object" /\ ~received.ok) =>
        /\ view = "acct" /\ ~dash.loading
        /\ dash.error = (IF received.error \in {Undefined, ""} THEN "ok=false" ELSE received.error)
        /\ ErrorBannerShown
        /\ dash.data = NoData
        /\ ~PositionsTableRendered /\ ~ClosedTableRendered

\* C3 witness: the request for 0xABCD, period week, positions and closed on,
\* was answered {ok:false, error:"bad account"} and that text is shown.
C3_Witness ==
    /\ received = [kind |-> "object", ok |-> FALSE, error |-> "bad account", forAccount |-> AddrA]
    /\ dash.addr = AddrA /\ dash.period = P_week
    /\ dash.includePositions /\ dash.includeClosed
    /\ dash.error = "bad account"

\* C4: while a fetch is pending the stored result and error are empty, a
\* result and an error are never stored together, and the Dashboard is in
\* exactly one of idle, loading, loaded, failed.
C4_OneStatus ==
    view = "acct" =>
        /\ dash.loading => (dash.data = NoData /\ dash.error = "")
        /\ ~(dash.data # NoData /\ dash.error # "")
        /\ Cardinality({k \in {"idle", "loading", "loaded", "failed"} :
                \/ k = "idle" /\ PromptShown
                \/ k = "loading" /\ dash.loading
                \/ k = "loaded" /\ DataShown
                \/ k = "failed" /\ ErrorBannerShown}) = 1

\* C4 witness: a fetch is pending (its response has arrived, its body has not)
\* on a Dashboard whose result and error are empty.
C4_Witness ==
    /\ view = "acct" /\ dash.loading /\ dash.data = NoData /\ dash.error = ""
    /\ \E i \in CallIds : calls[i].pc = "body" /\ calls[i].live

\* C5: whenever the fragment becomes an account fragment, the view shown is the
\* Dashboard with the fragment's address, and its base URL is the decoded base
\* parameter when that is non-empty, else the persisted preference, else the
\* built-in default.
C5_FragmentDecidesView ==
    [][ (hash' # hash /\ parseRoute(hash').name = "acct") =>
            /\ view' = "acct"
            /\ dash'.addr = parseRoute(hash').addr
            /\ dash'.baseUrl =
                 IF Truthy(QsGet(parseRoute(hash').qs, K_base))
                 THEN QsGet(parseRoute(hash').qs, K_base)
                 ELSE IF Truthy(storage) THEN storage ELSE DEFAULT_BASE
      ]_vars

\* C8: the selected period of a Dashboard, and so the period parameter of every
\* request of run and of CSV export, is one of the eight built-in periods.
C8_PeriodBuiltIn ==
    view = "acct" =>
        /\ dash.period \in BUILT_IN_PERIODS
        /\ RunRequest(dash).period \in BUILT_IN_PERIODS
        /\ \A s \in {"closed", "positions"} : CsvRequest(dash, s).period \in BUILT_IN_PERIODS

\* C9 (as stated): once the response has arrived the timer is cancelled.
C9_CancelledOnResponse ==
    \A i \in CallIds : calls[i].pc = "body" => i \notin timers

\* C9 (amended): the timer of a call is armed exactly while the call is
\* pending: from its start, through the arrival of a success-status response
\* and the reading of its body (where its expiry still aborts the call and
\* makes it fail), until the call settles; after the call has settled on any
\* path no timer of that call remains armed.
C9_TimerArmedWhilePending ==
    /\ timers \subseteq CallIds
    /\ \A i \in CallIds : (i \in timers) <=> Pending(i)

\* C9 witness: a success-status response has arrived and the timer of its call
\* is still armed.
C9_Witness == \E i \in CallIds : calls[i].pc = "body" /\ i \in timers

\* The base URL field of the mounted view.
CurBase == IF view = "home" THEN landing.baseUrl ELSE dash.baseUrl

\* C10 (as stated): the stored base URL changes only in a step that edits the
\* base URL field of the mounted view; mounting a view leaves it unchanged, and
\* it is never deleted.
C10_ChangedOnlyByEdit ==
    [][ /\ storage' # storage => (view' = view /\ CurBase' # CurBase)
        /\ storage' # Null
      ]_vars

\* C10 (amended): the stored base URL is written through by every edit of the
\* base URL field (typing or reset) in either view and also by every mount of
\* a view, which stores the base URL the view starts with (for a Dashboard
\* mounted from a fragment with a base parameter: that parameter); it changes in
\* no other step (fetching, toggling, choosing a period, navigating between two
\* account fragments), it always equals the field of the mounted view, and it
\* is never deleted.
C10_WriteThrough ==
    /\ storage = CurBase
    /\ [][ /\ storage' # storage => (view' # view \/ CurBase' # CurBase)
           /\ storage' = CurBase'
           /\ storage' # Null
         ]_vars

\* C10 witness: the Dashboard was reached by a fragment carrying a base
\* parameter, its base URL field has been reset to the default since, and the
\* stored value is that default.
C10_Witness ==
    /\ view = "acct"
    /\ QsGet(parseRoute(hash).qs, K_base) = ExampleBase
    /\ dash.baseUrl = DEFAULT_BASE
    /\ storage = DEFAULT_BASE

(***************************************************************************)
(* The pure functions parseRoute and shareUrl on bounded inputs            *)
(***************************************************************************)
T_hash  == <<"#">>
T_slash == <<"/">>
T_addr  == <<"0", "x", "1">>
T_query == <<"?">> \o K_base \o <<"=", "u">>
T_acct  == K_acct \o <<"/">>
Tokens  == {T_hash, T_slash, K_acct, T_acct, T_addr, T_query}

\* Every concatenation of at most MaxTok tokens.
Fragments == {Concat(t) : t \in UNION {[1..k -> Tokens] : k \in 0..MaxTok}}

AddrChars  == {"a", "/", "?", "#", "&", "%", " "}
ShareAddrs == UNION {[1..k -> AddrChars] : k \in 1..MaxAddrLen}
ShareBases ==
    { <<>>, <<"u">>, <<"a", "+", "b">>, <<"5", "0", "%">>, <<"a", " ", "b">>,
      <<"h", "t", "t", "p", "s", ":", "/", "/", "x", ".", "y", "/", "?", "a", "=", "b", "&", "c", "#", "d">>,
      DEFAULT_BASE }

ParseInit ==
    /\ AppLoaded(<<>>, Null)
    /\ p_url = <<>> /\ p_route = [name |-> "none"]
    /\ \/ p_pc = "parse" /\ p_hash \in Fragments /\ p_addr = <<>> /\ p_base = <<>>
       \/ p_pc = "share" /\ p_hash = <<>> /\ p_addr \in ShareAddrs /\ p_base \in ShareBases

\* route = parseRoute(hash)
DoParseRoute ==
    /\ p_pc = "parse"
    /\ p_route' = parseRoute(p_hash)
    /\ p_pc' = "parsed"
    /\ UNCHANGED <<p_hash, p_addr, p_base, p_url>>
    /\ UNCHANGED appVars

\* link = shareUrl(addr, baseUrl)
DoShareUrl ==
    /\ p_pc = "share"
    /\ p_url' = shareUrl(p_addr, p_base)
    /\ p_pc' = "shared"
    /\ UNCHANGED <<p_hash, p_addr, p_base, p_route>>
    /\ UNCHANGED appVars

\* The link is followed: the page reads its fragment and parses it.
DoFollowShared ==
    /\ p_pc = "shared"
    /\ p_hash' = UrlFragment(p_url)
    /\ p_route' = parseRoute(UrlFragment(p_url))
    /\ p_pc' = "reparsed"
    /\ UNCHANGED <<p_addr, p_base, p_url>>
    /\ UNCHANGED appVars

ParseNext == DoParseRoute \/ DoShareUrl \/ DoFollowShared
ParseSpec == ParseInit /\ [][ParseNext]_vars

\* ---- shapes of a fragment, stated by position and not by splitting ----
HasChar(s, c) == \E i \in 1..Len(s) : s[i] = c
AllSlashes(s, i, j) == \A k \in i..j : s[k] = "/"
\* The fragment without one leading "#", up to its first "?".
PathOf(f) ==
    LET g == IF f # <<>> /\ f[1] = "#" THEN Tail(f) ELSE f
        q == IndexOf(g, "?")
    IN  IF q = 0 THEN g ELSE SubSeq(g, 1, q - 1)
\* The addresses a such that the path is: slashes, "acct", one or more slashes,
\* a (non-empty, without slash), and then nothing or a slash and anything.
AcctAddrs(p) ==
    UNION { UNION { { SubSeq(p, j, k) :
                        k \in { k \in j..Len(p) :
                                  /\ ~HasChar(SubSeq(p, j, k), "/")
                                  /\ (k = Len(p) \/ p[k + 1] = "/") } } :
                    j \in { j \in (i + 5)..Len(p) : AllSlashes(p, i + 4, j - 1) /\ p[j] # "/" } } :
            i \in { i \in 1..(Len(p) - 5) :
                      AllSlashes(p, 1, i - 1) /\ SubSeq(p, i, i + 3) = K_acct /\ p[i + 4] = "/" } }
\* The exact shape #/acct/<nonempty>, optionally followed by ?query.
ExactPrefix == <<"#", "/">> \o K_acct \o <<"/">>
ExactSeg(f) ==
    LET rest == SubSeq(f, Len(ExactPrefix) + 1, Len(f))
        q    == IndexOf(rest, "?")
    IN  IF q = 0 THEN rest ELSE SubSeq(rest, 1, q - 1)
IsExact(f) ==
    /\ Len(f) > Len(ExactPrefix)
    /\ SubSeq(f, 1, Len(ExactPrefix)) = ExactPrefix
    /\ ExactSeg(f) # <<>>
    /\ ~HasChar(ExactSeg(f), "/")

\* C6 (as stated): parseRoute yields the account route exactly for the fragments
\* of the shape #/acct/<nonempty>[?query], with that segment as the address, and
\* the home route for every other fragment.
C6_ExactShapeOnly ==
    p_pc = "parsed" =>
        /\ p_route.name \in {"home", "acct"}
        /\ (p_route.name = "acct") <=> IsExact(p_hash)
        /\ p_route.name = "acct" => p_route.addr = ExactSeg(p_hash)

\* C6 (amended): parseRoute never fails; it yields the account route exactly when
\* the path (the fragment without one leading "#", up to the first "?") has "acct"
\* as its first non-empty segment and a second non-empty segment, which is the
\* address: empty segments are dropped and later segments ignored. Every fragment
\* of the exact shape #/acct/<nonempty>[?query] yields the account route with that
\* segment, and an empty address yields the home route.
C6_ParseRouteLenient ==
    p_pc = "parsed" =>
        /\ p_route.name \in {"home", "acct"}
        /\ (p_route.name = "acct") <=> (AcctAddrs(PathOf(p_hash)) # {})
        /\ p_route.name = "acct" => AcctAddrs(PathOf(p_hash)) = {p_route.addr}
        /\ IsExact(p_hash) => p_route.name = "acct" /\ p_route.addr = ExactSeg(p_hash)
        /\ p_route.name = "home" => p_route.addr = Null

\* C6 witness: a fragment that is not of the exact shape (no leading slash, a
\* repeated slash or an extra segment) has been parsed into an account route.
C6_Witness ==
    /\ p_pc = "parsed" /\ p_route.name = "acct" /\ ~IsExact(p_hash)
    /\ p_route.addr = T_addr

\* C7: parseRoute on the fragment of shareUrl(addr, base) yields the account
\* route with address addr and base parameter base, for every non-empty addr.
C7_ShareRoundTrip ==
    p_pc = "reparsed" =>
        /\ p_route.name = "acct"
        /\ p_route.addr = p_addr
        /\ QsGet(p_route.qs, K_base) = p_base

=============================================================================
